---------------------------- MODULE Spec2Model ----------------------------
(***************************************************************************)
(* A model of octave/list-matlab-package-functions.py: the name resolver   *)
(* (has_dot_in_target_basename, parse_fq_class_name), the tree walker      *)
(* (deep_search_for_functions), the formatter (print_for_octave) and main. *)
(*                                                                         *)
(* A Python str is a sequence of one-character strings.                    *)
(***************************************************************************)
EXTENDS Integers, Sequences, FiniteSets, TLC

VARIABLES
    pc,           \* position of the program
    argv,         \* what the command line holds after the program name
    xml_element,  \* main's xml_element: the parsed tree, once fetched
    functions,    \* the list of names the traversal returned
    todo,         \* print_for_octave: what is left of sorted(functions)
    cur_pos,      \* print_for_octave: the cur_pos counter
    stdout,       \* every character written to standard output so far
    status,       \* how the process ended: None while it runs
    target,       \* the resolver's argument "target"
    name,         \* the resolver's argument "name"
    ret           \* what the resolver call returned or raised

vars == <<pc, argv, xml_element, functions, todo, cur_pos, stdout, status,
          target, name, ret>>

None == "None"

(***************************************************************************)
(* Bounds of the model.                                                    *)
(***************************************************************************)
MaxLen == 3        \* longest basename and name handed to the resolver alone
MaxNodes == 3      \* most nodes of a fetched tree
MaxNames == 3      \* longest list handed to print_for_octave alone
MaxNameLen == 63   \* longest name handed to print_for_octave alone

(***************************************************************************)
(* Python's str and list operations, as the program uses them.             *)
(***************************************************************************)
\* The printable ASCII characters, in code-point order from 32 (code point
\* 96, the grave accent, cannot be written in a TLA+ string and is named).
Printable ==
    <<" ", "!", "\"", "#", "$", "%", "&", "'", "(", ")", "*", "+", ",", "-",
      ".", "/", "0", "1", "2", "3", "4", "5", "6", "7", "8", "9", ":", ";",
      "<", "=", ">", "?", "@", "A", "B", "C", "D", "E", "F", "G", "H", "I",
      "J", "K", "L", "M", "N", "O", "P", "Q", "R", "S", "T", "U", "V", "W",
      "X", "Y", "Z", "[", "\\", "]", "^", "_", "GRAVE", "a", "b", "c", "d", "e",
      "f", "g", "h", "i", "j", "k", "l", "m", "n", "o", "p", "q", "r", "s",
      "t", "u", "v", "w", "x", "y", "z", "{", "|", "}", "~">>

\* ord(c): the code point of a character; a line feed is 10.
ord(c) ==
    IF c = "\n" THEN 10
    ELSE 31 + (CHOOSE i \in 1..Len(Printable) : Printable[i] = c)

\* A slice index, as Python clamps it for a sequence of length n.
SliceIndex(i, n) ==
    IF i < 0 THEN (IF i + n < 0 THEN 0 ELSE i + n)
    ELSE (IF i > n THEN n ELSE i)

\* s[start:stop]
Slice(s, start, stop) ==
    LET a == SliceIndex(start, Len(s))
        b == SliceIndex(stop, Len(s))
    IN  IF a >= b THEN <<>> ELSE SubSeq(s, a + 1, b)

\* s.find(ch, start, stop) for a one-character ch: the lowest 0-based index
\* in s[start:stop] that holds ch, or -1.
find(s, ch, start, stop) ==
    LET a == SliceIndex(start, Len(s))
        b == SliceIndex(stop, Len(s))
        hits == {i \in a..(b - 1) : s[i + 1] = ch}
    IN  IF hits = {} THEN -1
        ELSE CHOOSE i \in hits : \A j \in hits : i <= j

startswith(s, prefix) ==
    /\ Len(prefix) <= Len(s)
    /\ SubSeq(s, 1, Len(prefix)) = prefix

endswith(s, suffix) ==
    /\ Len(suffix) <= Len(s)
    /\ SubSeq(s, Len(s) - Len(suffix) + 1, Len(s)) = suffix

\* A call's outcome: a returned value, or an exception that propagates.
Return(v) == [raised |-> FALSE, value |-> v]
Raise(e) == [raised |-> TRUE, value |-> e]

RefSlash == <<"r", "e", "f", "/">>
DotHtml == <<".", "h", "t", "m", "l">>

(***************************************************************************)
(* The name resolver.                                                      *)
(***************************************************************************)
\* The shape the assertion of has_dot_in_target_basename demands.
TargetShapeOK(t) ==
    /\ startswith(t, RefSlash)
    /\ find(t, "/", 4, Len(t)) = -1
    /\ endswith(t, DotHtml)

\* The search for the dot running on into the ".html" suffix.
has_dot_whole_target(t) ==
    IF ~TargetShapeOK(t) THEN Raise("AssertionError")
    ELSE Return(find(t, ".", 4, Len(t)) > -1)

\* The assertion compiled away.
has_dot_unasserted(t) == Return(find(t, ".", 4, -5) > -1)

has_dot_in_target_basename(t) ==
    IF ~TargetShapeOK(t) THEN Raise("AssertionError")
    ELSE Return(find(t, ".", 4, -5) > -1)

parse_fq_class_name(t, n) ==
    LET fqcn_lc == Slice(t, 4, -5)
    IN  Slice(fqcn_lc, 0, -Len(n)) \o n

(***************************************************************************)
(* The tree walker.  An ET.Element is [tag, attrib, children]: attrib is   *)
(* the dict of the element's attributes (a function on the keys present),  *)
(* children is list(element).                                              *)
(***************************************************************************)
RefTag == "{https://www.mathworks.com/help/ref/data}ref"

\* The flag set to always show the short name.
PrintShortName == FALSE

_PRINT_FQCN == TRUE

\* What a reference-entry node adds to the list (the body of the "if" on the
\* element's tag), or the assertion that fails there.
\* A reference entry without its attributes skipped instead of asserted.
RefEntrySkipping(element) ==
    LET attrib == element.attrib IN
    IF ~(/\ DOMAIN attrib # {}
         /\ "name" \in DOMAIN attrib
         /\ "target" \in DOMAIN attrib)
    THEN Return(<<>>)
    ELSE
        LET nm == attrib["name"]
            tg == attrib["target"]
            has_dot == has_dot_in_target_basename(tg)
        IN  IF has_dot.raised THEN has_dot
            ELSE IF has_dot.value
                 THEN Return(<<parse_fq_class_name(tg, nm)>>)
                 ELSE Return(<<nm>>)

RefEntry(element) ==
    LET attrib == element.attrib IN
    IF ~(/\ DOMAIN attrib # {}
         /\ "name" \in DOMAIN attrib
         /\ "target" \in DOMAIN attrib)
    THEN Raise("AssertionError")
    ELSE
        LET nm == attrib["name"] IN
        IF _PRINT_FQCN
        THEN LET tg == attrib["target"]
                 has_dot == has_dot_in_target_basename(tg)
             IN  IF has_dot.raised THEN has_dot
                 ELSE IF has_dot.value
                      THEN Return(<<parse_fq_class_name(tg, nm)>>)
                      ELSE Return(<<nm>>)
        ELSE Return(<<nm>>)

RECURSIVE deep_search_for_functions(_)
RECURSIVE SearchChildren(_, _)
RECURSIVE SearchChildrenPrepending(_, _)

\* The loop putting what a child returns in front of the list.
SearchChildrenPrepending(fns, children) ==
    IF children = <<>> THEN Return(fns)
    ELSE LET r == deep_search_for_functions(Head(children)) IN
         IF r.raised THEN r
         ELSE SearchChildrenPrepending(r.value \o fns, Tail(children))

\* The loop "for children in list(element)": fns is the list so far.
SearchChildren(fns, children) ==
    IF children = <<>> THEN Return(fns)
    ELSE LET r == deep_search_for_functions(Head(children)) IN
         IF r.raised THEN r
         ELSE SearchChildren(fns \o r.value, Tail(children))

deep_search_for_functions(element) ==
    LET own == IF element.tag = RefTag THEN RefEntry(element)
               ELSE Return(<<>>)
    IN  IF own.raised THEN own
        ELSE SearchChildren(own.value, element.children)

(***************************************************************************)
(* The formatter.                                                          *)
(***************************************************************************)
\* ord(c) with the case of a letter folded away.
ord_folded(c) == IF ord(c) >= 97 /\ ord(c) <= 122 THEN ord(c) - 32 ELSE ord(c)

RECURSIVE StrLessFolded(_, _)
\* The comparison ignoring case.
StrLessFolded(a, b) ==
    IF b = <<>> THEN FALSE
    ELSE IF a = <<>> THEN TRUE
    ELSE IF ord_folded(Head(a)) # ord_folded(Head(b))
         THEN ord_folded(Head(a)) < ord_folded(Head(b))
    ELSE StrLessFolded(Tail(a), Tail(b))

RECURSIVE StrLess(_, _)
\* a < b for two str: by code point at the first difference, a proper
\* prefix first.
StrLess(a, b) ==
    IF b = <<>> THEN FALSE
    ELSE IF a = <<>> THEN TRUE
    ELSE IF Head(a) # Head(b) THEN ord(Head(a)) < ord(Head(b))
    ELSE StrLess(Tail(a), Tail(b))

RECURSIVE InsertSorted(_, _)
\* x put into the sorted list s, behind every entry that is not greater.
InsertSorted(x, s) ==
    IF s = <<>> THEN <<x>>
    ELSE IF StrLess(x, Head(s)) THEN <<x>> \o s
    ELSE <<Head(s)>> \o InsertSorted(x, Tail(s))

RECURSIVE sorted(_)
sorted(l) ==
    IF l = <<>> THEN <<>>
    ELSE InsertSorted(l[Len(l)], sorted(SubSeq(l, 1, Len(l) - 1)))

LineWidth == 79

\* The width reckoned without the "..." that may follow.
chars_to_print_short(function) == Len(function) + 4

chars_to_print(function) == Len(function) + 7

CaseOpen == <<" ", " ", " ", " ", "c", "a", "s", "e", " ", "{">>
Ellipsis == <<".", ".", ".">>
\* The indent two spaces short.
IndentShort == <<" ", " ", " ", " ", " ", " ", " ", " ">>

Indent == <<" ", " ", " ", " ", " ", " ", " ", " ", " ", " ">>
Quoted(function) == <<"\"">> \o function \o <<"\"">>
\* The separator without its space.
CommaOnly == <<",">>

CommaSpace == <<",", " ">>
Newline == <<"\n">>

\* Lines 98-101: the opening of the list, and sorted(functions) evaluated
\* on entry to the loop.
PrintOpen ==
    /\ pc = "print"
    /\ stdout' = stdout \o CaseOpen
    /\ cur_pos' = 10
    /\ todo' = sorted(functions)
    /\ pc' = "loop"
    /\ UNCHANGED <<argv, xml_element, functions, status, target, name, ret>>

\* Lines 101-109: one iteration of the loop.
PrintFunction ==
    /\ pc = "loop"
    /\ todo # <<>>
    /\ LET function == Head(todo)
           wrap == cur_pos + chars_to_print(function) > LineWidth
           pos == IF wrap THEN 10 ELSE cur_pos
       IN  /\ stdout' = stdout
                        \o (IF wrap THEN Ellipsis \o Newline \o Indent
                            ELSE <<>>)
                        \o Quoted(function) \o CommaSpace
           /\ cur_pos' = pos + Len(function) + 4
    /\ todo' = Tail(todo)
    /\ UNCHANGED <<pc, argv, xml_element, functions, status, target, name,
                   ret>>

\* Line 110: the loop is over.
PrintClose ==
    /\ pc = "loop"
    /\ todo = <<>>
    /\ stdout' = stdout \o <<"}">> \o Newline
    /\ pc' = "return"
    /\ UNCHANGED <<argv, xml_element, functions, todo, cur_pos, status,
                   target, name, ret>>

(***************************************************************************)
(* main.                                                                   *)
(***************************************************************************)
Running == [exited |-> FALSE, code |-> 0, error |-> None]
Exit(code) == [exited |-> TRUE, code |-> code, error |-> None]
\* An exception nobody catches: the traceback and exit status 1.
Uncaught(e) == [exited |-> TRUE, code |-> 1, error |-> e]

\* The start of the help message argparse writes to standard output.
HelpText == <<"u", "s", "a", "g", "e", ":">>

\* Lines 114-119: -h writes the help to standard output and exits 0; any
\* other command line without exactly one positional argument writes to
\* standard error and exits 2.
ParseArgs ==
    /\ pc = "parse_args"
    /\ IF \E i \in 1..Len(argv) : argv[i] \in {"-h", "--help"}
       THEN /\ stdout' = stdout \o HelpText \o Newline
            /\ status' = Exit(0)
            /\ pc' = "exit"
       ELSE IF Len(argv) # 1
       THEN /\ status' = Exit(2)
            /\ pc' = "exit"
            /\ UNCHANGED stdout
       ELSE /\ pc' = "fetch"
            /\ UNCHANGED <<stdout, status>>
    /\ UNCHANGED <<argv, xml_element, functions, todo, cur_pos, target, name,
                   ret>>

\* Lines 121 and 30-37: the request or the XML parse fails, and the
\* exception ends the program.
FetchRaises ==
    /\ pc = "fetch"
    /\ \E e \in {"URLError", "ParseError"} : status' = Uncaught(e)
    /\ pc' = "exit"
    /\ UNCHANGED <<argv, xml_element, functions, todo, cur_pos, stdout,
                   target, name, ret>>

foo == <<"f", "o", "o">>
Bar == <<"B", "a", "r">>
ref_foo_html == RefSlash \o foo \o DotHtml
ref_myclass_bar_html ==
    RefSlash \o <<"m", "y", "c", "l", "a", "s", "s", ".", "b", "a", "r">>
             \o DotHtml

NoAttrib == [k \in {} |-> <<>>]

\* main's xml_element before the fetch has returned.
NoElement == [tag |-> None, attrib |-> NoAttrib, children |-> <<>>]

\* The nodes a fetched document is made of: elements with another tag,
\* reference entries that follow the schema, and reference entries that
\* break it in each of the ways the code asserts against.
NodeKinds ==
    { [tag |-> "reflist", attrib |-> NoAttrib],
      [tag |-> "ref", attrib |-> [name |-> Bar, target |-> ref_foo_html]],
      [tag |-> RefTag, attrib |-> [name |-> foo, target |-> ref_foo_html]],
      [tag |-> RefTag,
       attrib |-> [name |-> Bar, target |-> ref_myclass_bar_html]],
      [tag |-> RefTag, attrib |-> NoAttrib],
      [tag |-> RefTag, attrib |-> [name |-> foo]],
      [tag |-> RefTag, attrib |-> [target |-> ref_foo_html]],
      [tag |-> RefTag,
       attrib |-> [name |-> foo,
                   target |-> RefSlash \o <<"a", "/", "b">> \o DotHtml]],
      [tag |-> RefTag, attrib |-> [name |-> foo, target |-> foo \o DotHtml]],
      [tag |-> RefTag, attrib |-> [name |-> foo, target |-> RefSlash \o foo]]
    }

RECURSIVE TreesOfSize(_)
RECURSIVE ForestsOfSize(_)

\* The elements with a node of one of the kinds on top of one of the lists
\* of children.
Elements(kinds, forests) ==
    { [tag |-> k.tag, attrib |-> k.attrib, children |-> f] :
        k \in kinds, f \in forests }

\* The lists that put one of the elements before one of the lists.
Lists(elements, forests) == { <<t>> \o f : t \in elements, f \in forests }

\* The elements with exactly n nodes.
TreesOfSize(n) == Elements(NodeKinds, ForestsOfSize(n - 1))

\* The lists of elements with exactly n nodes in all.
ForestsOfSize(n) ==
    IF n = 0 THEN {<<>>}
    ELSE UNION { Lists(TreesOfSize(j), ForestsOfSize(n - j)) : j \in 1..n }

\* Lines 121 and 30-37: the document arrives and parses.
FetchReturns ==
    /\ pc = "fetch"
    /\ \E n \in 1..MaxNodes : \E tree \in TreesOfSize(n) : xml_element' = tree
    /\ pc' = "traverse"
    /\ UNCHANGED <<argv, functions, todo, cur_pos, stdout, status, target,
                   name, ret>>

\* Line 122: the whole traversal; an assertion that fails ends the program.
Traverse ==
    /\ pc = "traverse"
    /\ LET r == deep_search_for_functions(xml_element) IN
       IF r.raised
       THEN /\ status' = Uncaught(r.value)
            /\ pc' = "exit"
            /\ UNCHANGED functions
       ELSE /\ functions' = r.value
            /\ pc' = "print"
            /\ UNCHANGED status
    /\ UNCHANGED <<argv, xml_element, todo, cur_pos, stdout, target, name,
                   ret>>

\* Lines 124 and 128: main returns 0 and the process exits with it.
ReturnMain ==
    /\ pc = "return"
    /\ status' = Exit(0)
    /\ pc' = "exit"
    /\ UNCHANGED <<argv, xml_element, functions, todo, cur_pos, stdout,
                   target, name, ret>>

NoCall == [fn |-> None, out |-> Return(None)]

\* The command lines tried: one package name, a request for help, no
\* argument, two arguments.
CommandLines ==
    { <<"images">>, <<"-h">>, <<"--help">>, <<>>, <<"images", "signal">> }

Init ==
    /\ pc = "parse_args"
    /\ argv \in CommandLines
    /\ xml_element = NoElement
    /\ functions = <<>>
    /\ todo = <<>>
    /\ cur_pos = 0
    /\ stdout = <<>>
    /\ status = Running
    /\ target = <<>>
    /\ name = <<>>
    /\ ret = NoCall

Next ==
    \/ ParseArgs
    \/ FetchRaises
    \/ FetchReturns
    \/ Traverse
    \/ PrintOpen
    \/ PrintFunction
    \/ PrintClose
    \/ ReturnMain

Spec == Init /\ [][Next]_vars

(***************************************************************************)
(* print_for_octave called on its own, on every list of at most MaxNames   *)
(* names of a pool that holds the empty name, names of both cases, a name  *)
(* with a line feed in it, and names around the longest that still fits a  *)
(* line.                                                                   *)
(***************************************************************************)
Rep(c, n) == [i \in 1..n |-> c]

zeta == <<"z", "e", "t", "a">>
Alpha == <<"A", "l", "p", "h", "a">>
beta == <<"b", "e", "t", "a">>

NamePool ==
    { <<>>, zeta, Alpha, beta, <<"a", "\n", "b">>, Rep("a", 30),
      Rep("B", LineWidth - 17) }
    \cup { Rep("c", n) : n \in (LineWidth - 16)..MaxNameLen }

NameLists == UNION { [1..n -> NamePool] : n \in 0..MaxNames }

InitPrint ==
    /\ pc = "print"
    /\ argv = <<>>
    /\ xml_element = NoElement
    /\ functions \in NameLists
    /\ todo = <<>>
    /\ cur_pos = 0
    /\ stdout = <<>>
    /\ status = Running
    /\ target = <<>>
    /\ name = <<>>
    /\ ret = NoCall

NextPrint ==
    \/ PrintOpen
    \/ PrintFunction
    \/ PrintClose

SpecPrint == InitPrint /\ [][NextPrint]_vars

(***************************************************************************)
(* The name resolver called on its own, on every target ref/<b>.html and   *)
(* every name, b and the name of at most MaxLen characters.                *)
(***************************************************************************)
Strings(alphabet, n) == UNION { [1..k -> alphabet] : k \in 0..n }

BasenameChars == {"a", "b", ".", "/"}
NameChars == {"a", "B", "."}

CallHasDot ==
    /\ pc = "resolve"
    /\ ret' = [fn |-> "has_dot_in_target_basename",
               out |-> has_dot_in_target_basename(target)]
    /\ pc' = "resolved"
    /\ UNCHANGED <<argv, xml_element, functions, todo, cur_pos, stdout,
                   status, target, name>>

CallParse ==
    /\ pc = "resolve"
    /\ ret' = [fn |-> "parse_fq_class_name",
               out |-> Return(parse_fq_class_name(target, name))]
    /\ pc' = "resolved"
    /\ UNCHANGED <<argv, xml_element, functions, todo, cur_pos, stdout,
                   status, target, name>>

InitNames ==
    /\ pc = "resolve"
    /\ argv = <<>>
    /\ xml_element = NoElement
    /\ functions = <<>>
    /\ todo = <<>>
    /\ cur_pos = 0
    /\ stdout = <<>>
    /\ status = Running
    /\ \E b \in Strings(BasenameChars, MaxLen) :
          target = RefSlash \o b \o DotHtml
    /\ name \in Strings(NameChars, MaxLen)
    /\ ret = NoCall

NextNames ==
    \/ CallHasDot
    \/ CallParse

SpecNames == InitNames /\ [][NextNames]_vars

(***************************************************************************)
(* Claims about the name resolver, under SpecNames.                        *)
(***************************************************************************)
\* The basename a target ref/<basename>.html was built from.
BasenameOf(t) == SubSeq(t, 5, Len(t) - 5)

Contains(s, ch) == \E i \in 1..Len(s) : s[i] = ch

\* str.lower() on ASCII text.
lower(s) ==
    [i \in 1..Len(s) |->
        IF ord(s[i]) >= 65 /\ ord(s[i]) <= 90
        THEN Printable[ord(s[i]) + 32 - 31]
        ELSE s[i]]

HasDotReturned ==
    /\ pc = "resolved"
    /\ ret.fn = "has_dot_in_target_basename"

ParseReturned ==
    /\ pc = "resolved"
    /\ ret.fn = "parse_fq_class_name"

\* C1: for every basename without a '/', the call
\* has_dot_in_target_basename("ref/" + basename + ".html") passes its
\* assertion and returns true exactly when the basename holds a '.'; for the
\* empty basename it returns false.
C1_HasDotIffDotInBasename ==
    (HasDotReturned /\ ~Contains(BasenameOf(target), "/")) =>
        /\ ~ret.out.raised
        /\ ret.out.value = Contains(BasenameOf(target), ".")

\* A call on a dotted basename of full length has returned true.
C1_Witness ==
    /\ HasDotReturned
    /\ Len(BasenameOf(target)) = MaxLen
    /\ ~Contains(BasenameOf(target), "/")
    /\ Contains(BasenameOf(target), ".")
    /\ ~ret.out.raised
    /\ ret.out.value = TRUE

\* C2: for every name n and every lower-case q that ends with n lower-cased,
\* parse_fq_class_name("ref/" + q + ".html", n) returns q without its last
\* len(n) characters, followed by n: it has the length of q and lower-cases
\* to q.
C2_ParseReplacesSuffix ==
    LET q == BasenameOf(target) IN
    (ParseReturned /\ lower(q) = q /\ endswith(q, lower(name))) =>
        /\ ret.out.value = SubSeq(q, 1, Len(q) - Len(name)) \o name
        /\ Len(ret.out.value) = Len(q)
        /\ lower(ret.out.value) = q

(***************************************************************************)
(* Claims about the tree walker and main, under Spec.  A node of a tree is *)
(* named by its path from the root: the child indices on the way down.     *)
(***************************************************************************)
RECURSIVE Paths(_)
Paths(element) ==
    {<<>>} \cup UNION { { <<i>> \o p : p \in Paths(element.children[i]) } :
                        i \in 1..Len(element.children) }

RECURSIVE NodeAt(_, _)
NodeAt(element, path) ==
    IF path = <<>> THEN element
    ELSE NodeAt(element.children[Head(path)], Tail(path))

\* Document order: an ancestor before its descendants, and otherwise the
\* smaller child index at the first place the two paths differ.
Precedes(p, q) ==
    \/ Len(p) < Len(q) /\ SubSeq(q, 1, Len(p)) = p
    \/ \E k \in 1..Len(p) :
          /\ k <= Len(q)
          /\ SubSeq(p, 1, k - 1) = SubSeq(q, 1, k - 1)
          /\ p[k] < q[k]

RECURSIVE InDocumentOrder(_)
\* The paths of the set S, as a list in document order.
InDocumentOrder(S) ==
    IF S = {} THEN <<>>
    ELSE LET first == CHOOSE p \in S : \A q \in S \ {p} : Precedes(p, q)
         IN  <<first>> \o InDocumentOrder(S \ {first})

RefPaths(element) ==
    { p \in Paths(element) : NodeAt(element, p).tag = RefTag }

\* The schema of a reference entry: a name, and a target ref/<basename>.html
\* whose basename holds no '/'.
FollowsSchema(node) ==
    /\ "name" \in DOMAIN node.attrib
    /\ "target" \in DOMAIN node.attrib
    /\ LET t == node.attrib["target"] IN
       /\ Len(t) >= 9
       /\ SubSeq(t, 1, 4) = RefSlash
       /\ SubSeq(t, Len(t) - 4, Len(t)) = DotHtml
       /\ ~Contains(BasenameOf(t), "/")

BreaksSchema(element) ==
    \E p \in RefPaths(element) : ~FollowsSchema(NodeAt(element, p))

Fetched == xml_element # NoElement

\* The call of deep_search_for_functions in main has ended.
Traversed == Fetched /\ pc # "traverse"

AssertionFailed == status = Uncaught("AssertionError")

\* C3: if any reference-entry node of the tree, at any depth, lacks a name,
\* lacks a target or has a target not of the shape ref/<basename>.html, the
\* traversal ends in an assertion failure: no list is returned, nothing of
\* the node is collected, and nothing is printed.
C3_SchemaBreachIsFatal ==
    (Traversed /\ BreaksSchema(xml_element)) =>
        /\ AssertionFailed
        /\ pc = "exit"
        /\ functions = <<>>
        /\ stdout = <<>>

\* The root and its first child follow the schema, and a node two levels
\* down breaks it: the traversal has failed.
C3_Witness ==
    /\ Traversed
    /\ AssertionFailed
    /\ xml_element.tag = RefTag
    /\ FollowsSchema(xml_element)
    /\ \E p \in RefPaths(xml_element) :
          /\ Len(p) = 2
          /\ ~FollowsSchema(NodeAt(xml_element, p))
          /\ \A q \in RefPaths(xml_element) \ {p} :
                FollowsSchema(NodeAt(xml_element, q))

\* The name a reference entry that follows the schema is listed under.
ListedName(node) ==
    IF has_dot_in_target_basename(node.attrib["target"]).value
    THEN parse_fq_class_name(node.attrib["target"], node.attrib["name"])
    ELSE node.attrib["name"]

\* C5: for a tree whose reference entries all follow the schema, the
\* traversal returns one entry per reference-entry node, in document order:
\* other tags add nothing, nested reference entries are collected, equal
\* names stay separate entries.
C5_OneEntryPerRefInDocumentOrder ==
    (Traversed /\ ~BreaksSchema(xml_element)) =>
        LET order == InDocumentOrder(RefPaths(xml_element)) IN
        /\ ~AssertionFailed
        /\ Len(functions) = Cardinality(RefPaths(xml_element))
        /\ functions =
              [i \in 1..Len(order) |-> ListedName(NodeAt(xml_element, order[i]))]

\* A reference entry below a node of another tag below a reference entry,
\* both of the same name: two equal entries were returned.
C5_Witness ==
    /\ Traversed
    /\ pc = "print"
    /\ RefPaths(xml_element) = {<<>>, <<1, 1>>}
    /\ Cardinality(Paths(xml_element)) = 3
    /\ Len(functions) = 2
    /\ functions[1] = functions[2]

myclass_Bar == <<"m", "y", "c", "l", "a", "s", "s", ".", "B", "a", "r">>

\* The line:     case {"foo", "myclass.Bar", }
ScenarioLine ==
    <<" ", " ", " ", " ", "c", "a", "s", "e", " ", "{",
      "\"", "f", "o", "o", "\"", ",", " ",
      "\"", "m", "y", "c", "l", "a", "s", "s", ".", "B", "a", "r", "\"",
      ",", " ", "}", "\n">>

\* The tree holds exactly two reference entries: foo with target
\* ref/foo.html and then Bar with target ref/myclass.bar.html.
ScenarioTree ==
    LET order == InDocumentOrder(RefPaths(xml_element)) IN
    /\ Len(order) = 2
    /\ NodeAt(xml_element, order[1]).attrib
          = [name |-> foo, target |-> ref_foo_html]
    /\ NodeAt(xml_element, order[2]).attrib
          = [name |-> Bar, target |-> ref_myclass_bar_html]

\* C9: for a tree with exactly the two reference entries foo (ref/foo.html)
\* and Bar (ref/myclass.bar.html), the traversal returns
\* ["foo", "myclass.Bar"], and the program prints exactly the one line
\*     case {"foo", "myclass.Bar", } and exits with 0.
C9_EndToEndScenario ==
    (Traversed /\ ScenarioTree) =>
        /\ functions = <<foo, myclass_Bar>>
        /\ pc \in {"return", "exit"} => stdout = ScenarioLine
        /\ pc = "exit" => status = Exit(0)

\* The scenario has run to its end, the two entries below a root of
\* another tag.
C9_Witness ==
    /\ Traversed
    /\ ScenarioTree
    /\ xml_element.tag # RefTag
    /\ pc = "exit"
    /\ status = Exit(0)
    /\ stdout = ScenarioLine

HelpRequested == \E i \in 1..Len(argv) : argv[i] \in {"-h", "--help"}

Count(s, ch) == Cardinality({i \in 1..Len(s) : s[i] = ch})

\* The whole list has been written: the opening, every name in its quotes,
\* the closing brace and the end of the line.
WroteWholeList ==
    /\ startswith(stdout, CaseOpen)
    /\ endswith(stdout, <<"}", "\n">>)
    /\ Count(stdout, "\"") = 2 * Len(functions)
    /\ Len(functions) = Cardinality(RefPaths(xml_element))

\* Nothing is on standard output unless the fetch and the whole traversal
\* succeeded; a run that failed has written nothing; a run that has ended
\* and wrote anything wrote the whole list and returned 0.
OutputOnlyAfterTraversal ==
    /\ stdout # <<>> =>
          /\ Fetched
          /\ ~BreaksSchema(xml_element)
          /\ pc \in {"loop", "return", "exit"}
    /\ (status.exited /\ status.code # 0) => stdout = <<>>
    /\ (status.exited /\ stdout # <<>>) =>
          /\ status = Exit(0)
          /\ WroteWholeList

\* C4 as stated: in every run of main, nothing is written to standard
\* output before the fetch and the traversal have succeeded, a failed run
\* has written nothing, and a run that writes anything writes the whole
\* list and returns 0.
C4_Original == OutputOnlyAfterTraversal

\* C4, amended: the same, in every run of main whose command line does not
\* ask for help.
C4_NoOutputBeforeTraversal == ~HelpRequested => OutputOnlyAfterTraversal

\* A run without a request for help has written a list of two names and
\* returned 0.
C4_Witness ==
    /\ ~HelpRequested
    /\ status = Exit(0)
    /\ Len(functions) = 2
    /\ WroteWholeList

(***************************************************************************)
(* Claims about the formatter, under SpecPrint.                            *)
(***************************************************************************)
Positions(s, ch) == {i \in 1..Len(s) : s[i] = ch}

RECURSIVE Ascending(_)
\* A set of numbers as an ascending list.
Ascending(S) ==
    IF S = {} THEN <<>>
    ELSE LET least == CHOOSE i \in S : \A j \in S : i <= j
         IN  <<least>> \o Ascending(S \ {least})

\* The lines of a text: what lies before, between and after its line feeds;
\* the last one is the line still being written.
LinesOf(text) ==
    LET at == Ascending(Positions(text, "\n"))
        from(k) == IF k = 1 THEN 1 ELSE at[k - 1] + 1
        upto(k) == IF k > Len(at) THEN Len(text) ELSE at[k] - 1
    IN  [k \in 1..(Len(at) + 1) |-> SubSeq(text, from(k), upto(k))]

CurrentLine(text) == LinesOf(text)[Len(LinesOf(text))]

\* What stands between the first and second double quote, the third and
\* fourth, and so on.
QuotedParts(text) ==
    LET at == Ascending(Positions(text, "\""))
    IN  [k \in 1..(Len(at) \div 2) |->
            SubSeq(text, at[2 * k - 1] + 1, at[2 * k] - 1)]

Occurrences(l, x) == Cardinality({i \in 1..Len(l) : l[i] = x})

\* a sorts strictly before b by code point: at the first place they differ
\* a has ended or holds the smaller code point.
CodePointBefore(a, b) ==
    \E k \in 1..Len(b) :
        /\ k <= Len(a) + 1
        /\ SubSeq(a, 1, k - 1) = SubSeq(b, 1, k - 1)
        /\ (k > Len(a) \/ ord(a[k]) < ord(b[k]))

Printed == pc = "return"

NoLongName == \A i \in 1..Len(functions) : Len(functions[i]) <= 62

NoLineFeedInNames ==
    \A i \in 1..Len(functions) : ~Contains(functions[i], "\n")

NoLineOver79 ==
    \A k \in 1..Len(LinesOf(stdout)) : Len(LinesOf(stdout)[k]) <= 79

\* C6 as stated: for every list of names, no line written by
\* print_for_octave is longer than 79 characters.
C6_Original == NoLineOver79

\* C6, amended: for every list of names none of which is longer than 62
\* characters, no line written by print_for_octave is longer than 79
\* characters.
C6_NoLineOver79 == NoLongName => NoLineOver79

\* A list of names of at most 62 characters was printed on more than one
\* line, one of them exactly 79 characters long.
C6_Witness ==
    /\ Printed
    /\ NoLongName
    /\ NoLineFeedInNames
    /\ Len(LinesOf(stdout)) >= 3
    /\ \E k \in 1..Len(LinesOf(stdout)) : Len(LinesOf(stdout)[k]) = 79

\* C7: print_for_octave emits the names as a permutation of its input (the
\* same multiset) in non-decreasing code-point order, upper-case letters
\* before lower-case ones: ["zeta", "Alpha", "beta"] is printed as Alpha,
\* beta, zeta.
C7_EmitsSortedPermutation ==
    Printed =>
        LET emitted == QuotedParts(stdout) IN
        /\ Len(emitted) = Len(functions)
        /\ \A i \in 1..Len(functions) :
              Occurrences(emitted, functions[i])
                 = Occurrences(functions, functions[i])
        /\ \A i \in 1..(Len(emitted) - 1) :
              ~CodePointBefore(emitted[i + 1], emitted[i])
        /\ functions = <<zeta, Alpha, beta>>
              => emitted = <<Alpha, beta, zeta>>

\* The list ["zeta", "Alpha", "beta"] was printed in the order Alpha, beta,
\* zeta.
C7_Witness ==
    /\ Printed
    /\ functions = <<zeta, Alpha, beta>>
    /\ QuotedParts(stdout) = <<Alpha, beta, zeta>>

\* The names hold no double quote, comma, brace or "..." sequence.
NamesPlain ==
    \A i \in 1..Len(functions) :
        /\ \A ch \in {"\"", ",", "{", "}"} : ~Contains(functions[i], ch)
        /\ ~\E k \in 1..(Len(functions[i]) - 2) :
              SubSeq(functions[i], k, k + 2) = Ellipsis

DropFirst(s, n) == SubSeq(s, n + 1, Len(s))
DropLast(s, n) == SubSeq(s, 1, Len(s) - n)

RECURSIVE Concat(_)
Concat(pieces) ==
    IF pieces = <<>> THEN <<>> ELSE Head(pieces) \o Concat(Tail(pieces))

\* The finished output without its layout: the leading "    case {" of the
\* first line and the indent of every other line, the "..." that ends every
\* line but the last, the line breaks, and the closing of the last line,
\* which is `closing` characters long.
WithoutLayout(text, closing) ==
    LET lines == DropLast(LinesOf(text), 1)
        body(k) ==
            DropLast(DropFirst(lines[k], 10),
                     IF k < Len(lines) THEN 3 ELSE closing)
    IN  Concat([k \in 1..Len(lines) |-> body(k)])

QuoteCommaSpaceQuote == <<"\"", ",", " ", "\"">>

RECURSIVE SplitOn(_, _)
\* text.split(sep): cut at each occurrence of sep, found from the left.
SplitOn(text, sep) ==
    LET hits == { i \in 1..(Len(text) - Len(sep) + 1) :
                    SubSeq(text, i, i + Len(sep) - 1) = sep }
    IN  IF hits = {} THEN <<text>>
        ELSE LET at == CHOOSE i \in hits : \A j \in hits : i <= j
             IN  <<SubSeq(text, 1, at - 1)>>
                 \o SplitOn(DropFirst(text, at + Len(sep) - 1), sep)

RECURSIVE StripQuotes(_)
\* piece.strip('"')
StripQuotes(piece) ==
    IF piece # <<>> /\ Head(piece) = "\"" THEN StripQuotes(Tail(piece))
    ELSE IF piece # <<>> /\ piece[Len(piece)] = "\""
         THEN StripQuotes(DropLast(piece, 1))
    ELSE piece

Stripped(pieces) == [k \in 1..Len(pieces) |-> StripQuotes(pieces[k])]

\* What is left without the layout, split on `", "` and stripped of
\* quotes; nothing left is read as the empty list.
NamesIn(rest) ==
    IF rest = <<>> THEN <<>>
    ELSE Stripped(SplitOn(rest, QuoteCommaSpaceQuote))

\* The output read back as the claim says, with "}" as the closing.
ReadBackAsStated == NamesIn(WithoutLayout(stdout, 1))

\* The output read back with `, }` as the closing of a list that holds a
\* name.
ReadBack ==
    NamesIn(WithoutLayout(stdout, IF functions = <<>> THEN 1 ELSE 3))

\* The list of `functions` in non-decreasing code-point order.
IsSortedInput(l) ==
    /\ Len(l) = Len(functions)
    /\ \A i \in 1..Len(functions) :
          Occurrences(l, functions[i]) = Occurrences(functions, functions[i])
    /\ \A i \in 1..(Len(l) - 1) : ~CodePointBefore(l[i + 1], l[i])

\* C8 as stated: for names without double quote, comma, brace or "...", the
\* output with the leading "    case {", the closing "}", the "..." markers,
\* the line breaks and the continuation indent removed, split on `", "` and
\* stripped of quotes, is exactly the sorted input list.
C8_Original ==
    (Printed /\ NamesPlain /\ NoLineFeedInNames)
        => IsSortedInput(ReadBackAsStated)

\* C8, amended: for names without double quote, comma, brace, "..." or line
\* break, the output with the leading "    case {", the closing "}" together
\* with the comma and space the last name leaves before it, the "..."
\* markers, the line breaks and the continuation indent removed, then
\* (unless nothing is left, which reads as the empty list) split on `", "`
\* and stripped of quotes, is exactly the sorted input list.
C8_ReadBackIsSortedInput ==
    (Printed /\ NamesPlain /\ NoLineFeedInNames) => IsSortedInput(ReadBack)

\* Three names, one of them empty, printed on more than one line, were
\* read back.
C8_Witness ==
    /\ Printed
    /\ NamesPlain
    /\ NoLineFeedInNames
    /\ Len(functions) = 3
    /\ \E i \in 1..3 : functions[i] = <<>>
    /\ Len(LinesOf(stdout)) >= 3
    /\ Len(ReadBack) = 3

\* One iteration of the loop of print_for_octave is taken.
PrintsAName ==
    /\ pc = "loop"
    /\ todo # <<>>
    /\ todo' = Tail(todo)

\* The number of characters on the line being written, plus the width of
\* the next name, exceeds 79.
MustBreak == Len(CurrentLine(stdout)) + Len(Head(todo)) + 7 > 79

\* The iteration ended the line being written and began another.
Broke == Len(LinesOf(stdout')) = Len(LinesOf(stdout)) + 1

\* The line so ended is the old one with "..." behind it, and the new one
\* begins with exactly 10 spaces.
BrokeWithEllipsisAndIndent ==
    LET ended == LinesOf(stdout')[Len(LinesOf(stdout))]
        begun == CurrentLine(stdout')
    IN  /\ ended = CurrentLine(stdout) \o <<".", ".", ".">>
        /\ Len(begun) > 10
        /\ \A k \in 1..10 : begun[k] = " "
        /\ begun[11] # " "

EndedLineHoldsAName == Count(CurrentLine(stdout), "\"") >= 2

\* C10 as stated: when a name is about to be printed, cur_pos is the number
\* of characters on the current line; a break is made before the name
\* exactly when that number plus len(name) + 7 exceeds 79; the break ends
\* the line with "..." and begins the next with exactly 10 spaces; every
\* line so ended holds at least one name.
C10_Original ==
    [][PrintsAName =>
          /\ cur_pos = Len(CurrentLine(stdout))
          /\ Broke <=> MustBreak
          /\ Broke => BrokeWithEllipsisAndIndent /\ EndedLineHoldsAName
      ]_vars

\* C10, amended: the same for names without a line break in them, except
\* that the first line is ended without a name on it when the first name
\* printed is longer than 62 characters.
C10_BreakExactlyWhenOver79 ==
    [][(PrintsAName /\ NoLineFeedInNames) =>
          /\ cur_pos = Len(CurrentLine(stdout))
          /\ Broke <=> MustBreak
          /\ Broke =>
                /\ BrokeWithEllipsisAndIndent
                /\ \/ EndedLineHoldsAName
                   \/ /\ Len(LinesOf(stdout)) = 1
                      /\ Len(Head(todo)) > 62
      ]_vars

\* A break was made, the line being written holds a name, and the next
\* name brings another break.
C10_Witness ==
    /\ pc = "loop"
    /\ todo # <<>>
    /\ NoLineFeedInNames
    /\ Len(LinesOf(stdout)) = 2
    /\ EndedLineHoldsAName
    /\ cur_pos = Len(CurrentLine(stdout))
    /\ MustBreak

=============================================================================
